---------------------------- MODULE Spec2Model ----------------------------
(***************************************************************************)
(* Model of sky/shell/ui/flutter_font_selector.cc: the FlutterFontSelector *)
(* that loads FontManifest.json from an asset bundle into a family         *)
(* registry, picks the closest font of a family for a FontDescription,     *)
(* and caches typefaces per asset path and font data per cache key.        *)
(***************************************************************************)
EXTENDS Integers, Sequences, FiniteSets, TLC

(***************************************************************************)
(* Bounds of the model.                                                    *)
(***************************************************************************)
\* getFontData calls made on one selector instance (lifecycle specification)
MaxCalls == 2
\* getFontData calls made on one selector instance (style specification)
MaxStyleCalls == 2
\* fonts of a family in the matcher specification
MaxFonts == 3
\* family entries of a generated manifest
MaxFamilyEntries == 2
\* font entries of a generated manifest, over all its family entries
MaxFontEntries == 2

(***************************************************************************)
(* blink enums as the source uses them.                                    *)
(***************************************************************************)
FontStyleNormal == 0
FontStyleItalic == 1
\* FontWeight100 .. FontWeight900 are the enum values 0 .. 8
FontWeightNormal == 3
FontWeight600 == 5

kFontWeightValue == <<100, 200, 300, 400, 500, 600, 700, 800, 900>>

kFontWeightNormal == kFontWeightValue[FontWeightNormal + 1]

getFontWeightValue(weight) ==
    IF weight >= 0 /\ weight < Len(kFontWeightValue)
    THEN kFontWeightValue[weight + 1]
    ELSE kFontWeightNormal

abs(x) == IF x < 0 THEN -x ELSE x

(***************************************************************************)
(* base::Value trees, as JSONReader::Read hands them to the loader.  A     *)
(* dictionary is a TLA+ record: its keys are the record's field names.     *)
(***************************************************************************)
StringValue(s)     == [type |-> "string", str |-> s]
IntegerValue(i)    == [type |-> "integer", int |-> i]
ListValue(l)       == [type |-> "list", list |-> l]
DictionaryValue(d) == [type |-> "dictionary", dict |-> d]
\* what JSONReader::Read returns for bytes that are no JSON document
NoValue            == [type |-> "none"]

GetAsList(v)       == v.type = "list"
GetAsDictionary(v) == v.type = "dictionary"
\* DictionaryValue::GetString / GetInteger / GetList: the key is there and
\* its value has the asked type
GetString(d, key)  == key \in DOMAIN d.dict /\ d.dict[key].type = "string"
GetInteger(d, key) == key \in DOMAIN d.dict /\ d.dict[key].type = "integer"
GetList(d, key)    == key \in DOMAIN d.dict /\ d.dict[key].type = "list"

(***************************************************************************)
(* FlutterFontAttributes: the constructor's defaults, then the manifest's  *)
(* optional fields.                                                        *)
(***************************************************************************)
FlutterFontAttributes(path) ==
    [asset_path |-> path, weight |-> kFontWeightNormal, style |-> FontStyleNormal]

\* one font entry that passed the two `continue` tests
ParseAttributes(font_dict) ==
    LET attributes == FlutterFontAttributes(font_dict.dict["asset"].str)
        weighted   == IF GetInteger(font_dict, "weight")
                      THEN [attributes EXCEPT !.weight = font_dict.dict["weight"].int]
                      ELSE attributes
    IN  IF GetString(font_dict, "style") /\ font_dict.dict["style"].str = "italic"
        THEN [weighted EXCEPT !.style = FontStyleItalic]
        ELSE weighted

\* a loader that stops at the first font entry it cannot use
RECURSIVE ParseFontListUntilBad(_, _, _)
ParseFontListUntilBad(font_list, i, family_assets) ==
    IF i > Len(font_list) THEN family_assets
    ELSE IF ~GetAsDictionary(font_list[i]) THEN family_assets
    ELSE IF ~GetString(font_list[i], "asset") THEN family_assets
    ELSE ParseFontListUntilBad(font_list, i + 1,
                               Append(family_assets, ParseAttributes(font_list[i])))

\* the inner loop: the fonts pushed back on family_assets, in list order
RECURSIVE ParseFontList(_, _, _)
ParseFontList(font_list, i, family_assets) ==
    IF i > Len(font_list) THEN family_assets
    ELSE LET list_entry == font_list[i]
         IN  IF ~GetAsDictionary(list_entry)
             THEN ParseFontList(font_list, i + 1, family_assets)
             ELSE IF ~GetString(list_entry, "asset")
             THEN ParseFontList(font_list, i + 1, family_assets)
             ELSE ParseFontList(font_list, i + 1,
                                Append(family_assets, ParseAttributes(list_entry)))

\* WTF::HashMap::set as the loader calls it: the key's value becomes the
\* new (empty) vector whether or not the key was there
HashMapSet(map, key, value) ==
    [k \in DOMAIN map \cup {key} |-> IF k = key THEN value ELSE map[k]]

\* the outer loop over the family list
RECURSIVE ParseFamilyList(_, _, _)
ParseFamilyList(family_list, i, family_map) ==
    IF i > Len(family_list) THEN family_map
    ELSE LET family == family_list[i]
         IN  IF ~GetAsDictionary(family)
             THEN ParseFamilyList(family_list, i + 1, family_map)
             ELSE IF ~GetString(family, "family")
             THEN ParseFamilyList(family_list, i + 1, family_map)
             ELSE IF ~GetList(family, "fonts")
             THEN ParseFamilyList(family_list, i + 1, family_map)
             ELSE LET family_key == family.dict["family"].str
                      reset      == HashMapSet(family_map, family_key, <<>>)
                      assets     == ParseFontList(family.dict["fonts"].list, 1,
                                                  reset[family_key])
                  IN  ParseFamilyList(family_list, i + 1,
                                      [reset EXCEPT ![family_key] = assets])

\* the empty font_family_map_ of a constructed selector
EmptyMap == [k \in {} |-> <<>>]

\* a loader that takes a top-level object for a list of that one family
parseFontManifestOfObject(manifest) ==
    IF ~manifest.found THEN EmptyMap
    ELSE IF manifest.json.type = NoValue.type THEN EmptyMap
    ELSE IF GetAsDictionary(manifest.json)
    THEN ParseFamilyList(<<manifest.json>>, 1, EmptyMap)
    ELSE IF ~GetAsList(manifest.json) THEN EmptyMap
    ELSE ParseFamilyList(manifest.json.list, 1, EmptyMap)

\* parseFontManifest on a bundle whose manifest asset is `manifest`:
\* [found |-> BOOLEAN, json |-> the tree JSONReader::Read gives, or NoValue]
parseFontManifest(manifest) ==
    IF ~manifest.found THEN EmptyMap
    ELSE IF manifest.json.type = NoValue.type THEN EmptyMap
    ELSE IF ~GetAsList(manifest.json) THEN EmptyMap
    ELSE ParseFamilyList(manifest.json.list, 1, EmptyMap)

(***************************************************************************)
(* FontMatcher and the choice of a family's font.  A description is        *)
(* [weight, style, synthetic_bold, synthetic_italic]: weight a FontWeight  *)
(* enum value, style a FontStyle enum value.                               *)
(***************************************************************************)
\* a matcher that compares the weight deltas alone
FontMatcherByWeight(font1, font2, description) ==
    abs(font1.weight - getFontWeightValue(description.weight))
        < abs(font2.weight - getFontWeightValue(description.weight))

\* a matcher that prefers the farther weight
FontMatcherFarther(font1, font2, description) ==
    IF font1.style # font2.style /\ font1.style = description.style THEN TRUE
    ELSE IF font1.style # font2.style /\ font2.style = description.style THEN FALSE
    ELSE abs(font1.weight - getFontWeightValue(description.weight))
            > abs(font2.weight - getFontWeightValue(description.weight))

\* FontMatcher::operator(): is font1 a closer match than font2
FontMatcher(font1, font2, description) ==
    LET target_weight_ == getFontWeightValue(description.weight)
        weight_delta1  == abs(font1.weight - target_weight_)
        weight_delta2  == abs(font2.weight - target_weight_)
    IN  IF font1.style # font2.style /\ font1.style = description.style THEN TRUE
        ELSE IF font1.style # font2.style /\ font2.style = description.style THEN FALSE
        ELSE weight_delta1 < weight_delta2

\* std::min_element with FontMatcher: the index of the first font that no
\* later font is a closer match than
RECURSIVE MinElementFrom(_, _, _, _)
MinElementFrom(fonts, i, smallest, description) ==
    IF i > Len(fonts) THEN smallest
    ELSE MinElementFrom(fonts, i + 1,
                        IF FontMatcher(fonts[i], fonts[smallest], description)
                        THEN i ELSE smallest,
                        description)

min_element(fonts, description) == MinElementFrom(fonts, 2, 1, description)

\* a choice that gives up on a sole font of another style
SelectFontOfStyle(fonts, description) ==
    IF Len(fonts) = 1
    THEN (IF fonts[1].style = description.style THEN 1 ELSE 0)
    ELSE min_element(fonts, description)

\* font_iter of getTypefaceAsset, as an index into a non-empty `fonts`
SelectFont(fonts, description) ==
    IF Len(fonts) = 1 THEN 1 ELSE min_element(fonts, description)

(***************************************************************************)
(* The state: the asset bundle the selector reads, the active selector's   *)
(* three maps, and what the last operation did (the call-counting stubs of *)
(* the two collaborators).                                                 *)
(***************************************************************************)
VARIABLES
    zip_asset_bundle_,         \* [manifest, assets]: what GetAsBuffer finds
    installed,                 \* a selector is the UIDartState's font selector
    font_family_map_,          \* family name -> sequence of FlutterFontAttributes
    typeface_cache_,           \* asset path -> TypefaceAsset, or the null entry
    font_platform_data_cache_, \* FontCacheKey -> SimpleFontData
    next_id,                   \* the next object the allocator hands out
    calls,                     \* getFontData calls made on this selector
    fetch_count,               \* asset path -> GetAsBuffer calls made for it
    construct_count,           \* asset path -> createFromStream calls made for it
    returned,                  \* FontCacheKey -> the font data first returned for it
    failed,                    \* the asset paths whose load failed on this selector
    call                       \* the last operation: its request and what it did

vars == <<zip_asset_bundle_, installed, font_family_map_, typeface_cache_,
          font_platform_data_cache_, next_id, calls, fetch_count,
          construct_count, returned, failed, call>>

\* GetAsBuffer of an asset that is not in the bundle
NotFound == [found |-> FALSE, data |-> ""]

Asset(data) == [found |-> TRUE, data |-> data]

\* a bundle that answers for a missing asset with another asset it has
GetAsBufferOfAnyAsset(path) ==
    IF path \in DOMAIN zip_asset_bundle_.assets /\ zip_asset_bundle_.assets[path].found
    THEN zip_asset_bundle_.assets[path]
    ELSE IF \E p \in DOMAIN zip_asset_bundle_.assets : zip_asset_bundle_.assets[p].found
    THEN zip_asset_bundle_.assets[
             CHOOSE p \in DOMAIN zip_asset_bundle_.assets :
                 zip_asset_bundle_.assets[p].found]
    ELSE NotFound

GetAsBuffer(path) ==
    IF path \in DOMAIN zip_asset_bundle_.assets
    THEN zip_asset_bundle_.assets[path]
    ELSE NotFound

\* a null SkTypeface*, and the typeface SkFontMgr::createFromStream builds:
\* null for bytes that are no font, else a typeface whose isBold and
\* isItalic are what the font binary says
NullTypeface == [id |-> 0, bold |-> FALSE, italic |-> FALSE]

createFromStream(data, id) ==
    IF data = "corrupt" THEN NullTypeface
    ELSE [id |-> id, bold |-> data = "bold", italic |-> data = "italic"]

\* the null unique_ptr<TypefaceAsset> that records a failed load
NullAsset == [typeface |-> NullTypeface, data |-> ""]

\* an asset that keeps the typeface and drops the bytes it was built from
TypefaceAssetWithoutBytes(typeface, data) == [typeface |-> typeface, data |-> ""]

TypefaceAsset(typeface, data) == [typeface |-> typeface, data |-> data]

EmptyTypefaceCache == [p \in {} |-> NullAsset]

NullFontData ==
    [id |-> 0, typeface |-> 0, family |-> "",
     synthetic_bold |-> FALSE, synthetic_italic |-> FALSE]

EmptyFontDataCache == [k \in {} |-> NullFontData]

EmptyCount == [p \in {} |-> 0]

Count(counter, path) == IF path \in DOMAIN counter THEN counter[path] ELSE 0

Increment(counter, path) ==
    [p \in DOMAIN counter \cup {path} |->
        IF p = path THEN Count(counter, path) + 1 ELSE counter[p]]

\* FontDescription::cacheKey(FontFaceCreationParams(family_name)): the
\* family and every field of the description (the effective size, the
\* orientation and the subpixel flag are the same for all requests here)
cacheKey(font_description, family_name) ==
    <<family_name, font_description.weight, font_description.style,
      font_description.synthetic_bold, font_description.synthetic_italic>>

(***************************************************************************)
(* getTypefaceAsset, as the record of what it returns and what it does:    *)
(*   typeface        the SkTypeface* returned (NullTypeface for nullptr)   *)
(*   typeface_cache  typeface_cache_ after the call                        *)
(*   font_iter       the index of the chosen font, 0 when none was chosen  *)
(*   asset_path      the chosen font's path, "" when none was chosen       *)
(*   fetched         GetAsBuffer was called for asset_path                 *)
(*   constructed     createFromStream was called for its bytes             *)
(***************************************************************************)
\* a lookup that only finds the assets that loaded
TypefaceCacheFindLoaded(asset_path) ==
    asset_path \in DOMAIN typeface_cache_ /\ typeface_cache_[asset_path] # NullAsset

\* typeface_cache_.find(asset_path) != typeface_cache_.end()
TypefaceCacheFind(asset_path) == asset_path \in DOMAIN typeface_cache_

\* typeface_cache_.insert(std::make_pair(asset_path, asset)): insert keeps
\* an entry that is already there
TypefaceCacheInsert(asset_path, asset) ==
    typeface_cache_ @@ (asset_path :> asset)

\* a failure that is not remembered
RecordNothing(asset_path) == typeface_cache_

\* typeface_cache_.insert(std::make_pair(asset_path, nullptr))
RecordFailure(asset_path) == TypefaceCacheInsert(asset_path, NullAsset)

\* an unknown family remembered as a failed asset
NoFontRemembered ==
    [typeface |-> NullTypeface, typeface_cache |-> RecordFailure(""),
     font_iter |-> 0, asset_path |-> "", fetched |-> FALSE, constructed |-> FALSE]

\* `return nullptr` for a family the registry does not have, or has no
\* font for: nothing was chosen and nothing was done
NoFont == [typeface |-> NullTypeface, typeface_cache |-> typeface_cache_,
           font_iter |-> 0, asset_path |-> "",
           fetched |-> FALSE, constructed |-> FALSE]

getTypefaceAsset(font_description, family_name) ==
    IF family_name \notin DOMAIN font_family_map_ THEN NoFont
    ELSE IF font_family_map_[family_name] = <<>> THEN NoFont
    ELSE
      LET fonts      == font_family_map_[family_name]
          font_iter  == SelectFont(fonts, font_description)
          asset_path == fonts[font_iter].asset_path
          chosen     == [NoFont EXCEPT !.font_iter = font_iter,
                                       !.asset_path = asset_path]
          buffer     == GetAsBuffer(asset_path)
          typeface   == createFromStream(buffer.data, next_id)
      IN  IF TypefaceCacheFind(asset_path)
          THEN LET cache_asset == typeface_cache_[asset_path]
               IN  [chosen EXCEPT !.typeface =
                       IF cache_asset # NullAsset THEN cache_asset.typeface
                       ELSE NullTypeface]
          ELSE IF ~buffer.found
          THEN [chosen EXCEPT !.fetched = TRUE,
                              !.typeface_cache = RecordFailure(asset_path)]
          ELSE IF typeface = NullTypeface
          THEN [chosen EXCEPT !.fetched = TRUE, !.constructed = TRUE,
                              !.typeface_cache = RecordFailure(asset_path)]
          ELSE [chosen EXCEPT !.fetched = TRUE, !.constructed = TRUE,
                              !.typeface = typeface,
                              !.typeface_cache =
                                  TypefaceCacheInsert(asset_path,
                                      TypefaceAsset(typeface, buffer.data))]

\* a bold flag that starts above FontWeight600
SyntheticBoldAbove600(font_description, typeface) ==
    (font_description.weight > FontWeight600 /\ ~typeface.bold)
        \/ font_description.synthetic_bold

\* the two flags getFontData gives FontPlatformData
SyntheticBold(font_description, typeface) ==
    (font_description.weight >= FontWeight600 /\ ~typeface.bold)
        \/ font_description.synthetic_bold

SyntheticItalic(font_description, typeface) ==
    (font_description.style # 0 /\ ~typeface.italic)
        \/ font_description.synthetic_italic

\* font_platform_data_cache_.get(key) is not null
FontDataCacheHit(key) == key \in DOMAIN font_platform_data_cache_

\* font data that is built and returned but not stored
FontDataCacheSetNothing(key, font_data) == font_platform_data_cache_

\* a cache of one entry: storing font data evicts what was stored before
FontDataCacheSetEvicting(key, font_data) == (key :> font_data)

\* font_platform_data_cache_.set(key, font_data)
FontDataCacheSet(key, font_data) ==
    (key :> font_data) @@ font_platform_data_cache_

\* a failure that the font data cache remembers as a null entry
ReturnNullptrCached(key) == FontDataCacheSet(key, NullFontData)

\* `return nullptr` at a null typeface: the font data cache is not written
ReturnNullptr(key) == font_platform_data_cache_

\* font data that holds a typeface of its own, not the cached one
SimpleFontDataOfCopy(id, typeface, family_name, synthetic_bold, synthetic_italic) ==
    [id |-> id, typeface |-> id, family |-> family_name,
     synthetic_bold |-> synthetic_bold, synthetic_italic |-> synthetic_italic]

\* SimpleFontData::create(FontPlatformData(typeface, family_name, ...))
SimpleFontData(id, typeface, family_name, synthetic_bold, synthetic_italic) ==
    [id |-> id, typeface |-> typeface.id, family |-> family_name,
     synthetic_bold |-> synthetic_bold, synthetic_italic |-> synthetic_italic]

\* what `call` says when no getFontData call has been made on the selector
NoDescription == [weight |-> FontWeightNormal, style |-> FontStyleNormal,
                  synthetic_bold |-> FALSE, synthetic_italic |-> FALSE]

\* what an install replaced when there was no selector, or a selector with
\* no family and no cache entry
NothingReplaced == [families |-> {}, typefaces |-> 0, font_data |-> 0]

NoCall(op) ==
    [op |-> op, family_name |-> "", font_description |-> NoDescription,
     result |-> NullFontData, hit |-> FALSE, resolved |-> FALSE,
     font_iter |-> 0, asset_path |-> "", fetched |-> FALSE, constructed |-> FALSE,
     replaced |-> NothingReplaced]

\* what the selector that an install replaces had: its registry's families
\* and the number of entries of its two caches
Replaced ==
    [families  |-> DOMAIN font_family_map_,
     typefaces |-> Cardinality(DOMAIN typeface_cache_),
     font_data |-> Cardinality(DOMAIN font_platform_data_cache_)]

\* an install that loads the manifest into the active selector: its
\* families are added to the registry and the caches are kept
installIntoActive ==
    /\ installed' = TRUE
    /\ font_family_map_' =
           parseFontManifest(zip_asset_bundle_.manifest) @@ font_family_map_
    /\ call' = [NoCall("install") EXCEPT !.replaced = Replaced]
    /\ UNCHANGED <<zip_asset_bundle_, typeface_cache_, font_platform_data_cache_,
                   next_id, calls, fetch_count, construct_count, returned, failed>>

(***************************************************************************)
(* FlutterFontSelector::install: a new selector, its registry parsed from  *)
(* the bundle's manifest, becomes the font selector.                       *)
(***************************************************************************)
install ==
    /\ installed' = TRUE
    /\ font_family_map_' = parseFontManifest(zip_asset_bundle_.manifest)
    /\ typeface_cache_' = EmptyTypefaceCache
    /\ font_platform_data_cache_' = EmptyFontDataCache
    /\ next_id' = 1
    /\ calls' = 0
    /\ fetch_count' = EmptyCount
    /\ construct_count' = EmptyCount
    /\ returned' = EmptyFontDataCache
    /\ failed' = {}
    /\ call' = [NoCall("install") EXCEPT !.replaced = Replaced]
    /\ UNCHANGED zip_asset_bundle_

(***************************************************************************)
(* FlutterFontSelector::getFontData on the font selector.                  *)
(***************************************************************************)
getFontData(font_description, family_name) ==
    LET key   == cacheKey(font_description, family_name)
        asset == getTypefaceAsset(font_description, family_name)
        font_data_id == IF asset.constructed THEN next_id + 1 ELSE next_id
        font_data ==
            SimpleFontData(font_data_id, asset.typeface, family_name,
                           SyntheticBold(font_description, asset.typeface),
                           SyntheticItalic(font_description, asset.typeface))
        request == [NoCall("getFontData") EXCEPT
                       !.family_name = family_name,
                       !.font_description = font_description]
    IN
    /\ installed
    /\ calls' = calls + 1
    /\ UNCHANGED <<zip_asset_bundle_, installed, font_family_map_>>
    /\ IF FontDataCacheHit(key)
       THEN /\ call' = [request EXCEPT !.hit = TRUE,
                                       !.result = font_platform_data_cache_[key]]
            /\ UNCHANGED <<typeface_cache_, font_platform_data_cache_, next_id,
                           fetch_count, construct_count, failed>>
       ELSE /\ typeface_cache_' = asset.typeface_cache
            /\ fetch_count' = IF asset.fetched
                              THEN Increment(fetch_count, asset.asset_path)
                              ELSE fetch_count
            /\ construct_count' = IF asset.constructed
                                  THEN Increment(construct_count, asset.asset_path)
                                  ELSE construct_count
            /\ failed' = IF asset.fetched /\ asset.typeface = NullTypeface
                         THEN failed \cup {asset.asset_path}
                         ELSE failed
            /\ IF asset.typeface = NullTypeface
               THEN /\ call' = [request EXCEPT !.resolved = TRUE,
                                               !.font_iter = asset.font_iter,
                                               !.asset_path = asset.asset_path,
                                               !.fetched = asset.fetched,
                                               !.constructed = asset.constructed]
                    /\ next_id' = next_id
                    /\ font_platform_data_cache_' = ReturnNullptr(key)
               ELSE /\ call' = [request EXCEPT !.resolved = TRUE,
                                               !.result = font_data,
                                               !.font_iter = asset.font_iter,
                                               !.asset_path = asset.asset_path,
                                               !.fetched = asset.fetched,
                                               !.constructed = asset.constructed]
                    /\ next_id' = font_data_id + 1
                    /\ font_platform_data_cache_' = FontDataCacheSet(key, font_data)
    /\ returned' = IF call'.result # NullFontData
                   THEN returned @@ (key :> call'.result)
                   ELSE returned

(***************************************************************************)
(* The bundles and requests of the lifecycle specification.                *)
(***************************************************************************)
kFontManifestAssetPath == "FontManifest.json"

RegularPath == "fonts/Roboto-Regular.ttf"
BoldPath    == "fonts/Roboto-Bold.ttf"

AssetPaths == {RegularPath, BoldPath}

\* a font asset's bytes are "corrupt" (no font) or a font binary that
\* reports "plain", "bold" or "italic".  The lifecycle specification's
\* assets: missing, no font, or a plain font
LifecycleContents == {NotFound, Asset("corrupt"), Asset("plain")}

Manifest(json) == [found |-> TRUE, json |-> json]

NoManifest == [found |-> FALSE, json |-> NoValue]

FontEntry(asset) == DictionaryValue([asset |-> StringValue(asset)])

WeightedFontEntry(asset, weight) ==
    DictionaryValue([asset |-> StringValue(asset), weight |-> IntegerValue(weight)])

StyledFontEntry(asset, style) ==
    DictionaryValue([asset |-> StringValue(asset), style |-> StringValue(style)])

FamilyEntry(family, fonts) ==
    DictionaryValue([family |-> StringValue(family), fonts |-> ListValue(fonts)])

\* [{"family":"Roboto","fonts":[{"asset":"fonts/Roboto-Regular.ttf","weight":400},
\*                              {"asset":"fonts/Roboto-Bold.ttf","weight":700}]}]
RobotoFamily ==
    FamilyEntry("Roboto", <<WeightedFontEntry(RegularPath, 400),
                            WeightedFontEntry(BoldPath, 700)>>)

RobotoManifest == Manifest(ListValue(<<RobotoFamily>>))

\* Roboto, a family of one italic font that shares Roboto's regular asset,
\* and a family that lists no font
AppManifest ==
    Manifest(ListValue(<<RobotoFamily,
                         FamilyEntry("Solo", <<StyledFontEntry(RegularPath, "italic")>>),
                         FamilyEntry("Empty", <<>>)>>))

\* another application's manifest: Roboto is its bold font alone
OtherManifest ==
    Manifest(ListValue(<<FamilyEntry("Roboto", <<WeightedFontEntry(BoldPath, 700)>>)>>))

LifecycleManifests == {AppManifest, OtherManifest, NoManifest}

Description(weight, style, synthetic_bold, synthetic_italic) ==
    [weight |-> weight, style |-> style,
     synthetic_bold |-> synthetic_bold, synthetic_italic |-> synthetic_italic]

LifecycleFamilies == {"Roboto", "Solo", "Empty", "Nope"}

LifecycleDescriptions ==
    {Description(w, s, FALSE, FALSE) : w \in {FontWeightNormal, 8},
                                       s \in {FontStyleNormal, FontStyleItalic}}

\* the state no selector has been installed in
NoSelector ==
    /\ installed = FALSE
    /\ font_family_map_ = EmptyMap
    /\ typeface_cache_ = EmptyTypefaceCache
    /\ font_platform_data_cache_ = EmptyFontDataCache
    /\ next_id = 1
    /\ calls = 0
    /\ fetch_count = EmptyCount
    /\ construct_count = EmptyCount
    /\ returned = EmptyFontDataCache
    /\ failed = {}
    /\ call = NoCall("none")

Init ==
    /\ zip_asset_bundle_ \in
           {[manifest |-> m, assets |-> a] :
                m \in LifecycleManifests, a \in [AssetPaths -> LifecycleContents]}
    /\ NoSelector

\* the bundle's content changes under the selector: an asset is added,
\* removed or replaced
ReplaceAsset(path, content) ==
    /\ zip_asset_bundle_.assets[path] # content
    /\ zip_asset_bundle_' = [zip_asset_bundle_ EXCEPT !.assets[path] = content]
    /\ UNCHANGED <<installed, font_family_map_, typeface_cache_,
                   font_platform_data_cache_, next_id, calls, fetch_count,
                   construct_count, returned, failed, call>>

ReplaceManifest(manifest) ==
    /\ zip_asset_bundle_.manifest # manifest
    /\ zip_asset_bundle_' = [zip_asset_bundle_ EXCEPT !.manifest = manifest]
    /\ UNCHANGED <<installed, font_family_map_, typeface_cache_,
                   font_platform_data_cache_, next_id, calls, fetch_count,
                   construct_count, returned, failed, call>>

Install == install

GetFontData ==
    \E family_name \in LifecycleFamilies, font_description \in LifecycleDescriptions :
        /\ calls < MaxCalls
        /\ getFontData(font_description, family_name)

BundleChange ==
    \/ \E path \in AssetPaths, content \in LifecycleContents : ReplaceAsset(path, content)
    \/ \E manifest \in LifecycleManifests : ReplaceManifest(manifest)

Next == Install \/ GetFontData \/ BundleChange

Spec == Init /\ [][Next]_vars

(***************************************************************************)
(* The style specification: the manifest of the end-to-end example, fonts  *)
(* of every kind behind its two assets, and requests of every style.       *)
(***************************************************************************)
\* the FontWeight enum value of a weight on the 100 .. 900 scale
FontWeightOf(value) ==
    CHOOSE weight \in 0 .. Len(kFontWeightValue) - 1 :
        kFontWeightValue[weight + 1] = value

StyleContents == {Asset("plain"), Asset("bold"), Asset("italic")}

StyleDescriptions ==
    {Description(FontWeightOf(w), s, sb, si) :
         w \in {500, 600, 700, 900}, s \in {FontStyleNormal, FontStyleItalic},
         sb \in BOOLEAN, si \in BOOLEAN}

InitStyle ==
    /\ zip_asset_bundle_ \in
           {[manifest |-> RobotoManifest, assets |-> a] :
                a \in [AssetPaths -> StyleContents]}
    /\ NoSelector

GetStyledFontData ==
    \E font_description \in StyleDescriptions :
        /\ calls < MaxStyleCalls
        /\ getFontData(font_description, "Roboto")

NextStyle == Install \/ GetStyledFontData

SpecStyle == InitStyle /\ [][NextStyle]_vars

(***************************************************************************)
(* The matcher specification: a family of up to MaxFonts fonts, loaded     *)
(* from its manifest, and the font chosen from it for every description.   *)
(***************************************************************************)
FullFontEntry(asset, weight, style) ==
    DictionaryValue([asset |-> StringValue(asset), weight |-> IntegerValue(weight),
                     style |-> StringValue(style)])

MatcherPaths == <<"a.ttf", "b.ttf", "c.ttf", "d.ttf", "e.ttf">>

MatcherWeights == {400, 700, 1000}

\* the font lists of n entries, the i-th with the i-th path
RECURSIVE MatcherFontLists(_)
MatcherFontLists(n) ==
    IF n = 0 THEN {<<>>}
    ELSE {Append(l, FullFontEntry(MatcherPaths[n], w, st)) :
              l \in MatcherFontLists(n - 1), w \in MatcherWeights,
              st \in {"normal", "italic"}}

MatcherManifests ==
    {Manifest(ListValue(<<FamilyEntry("Family", l)>>)) :
         l \in UNION {MatcherFontLists(n) : n \in 1 .. MaxFonts}}

MatcherDescriptions ==
    {Description(w, s, FALSE, FALSE) :
         w \in 0 .. Len(kFontWeightValue) - 1, s \in {FontStyleNormal, FontStyleItalic}}

InitMatcher ==
    /\ zip_asset_bundle_ \in
           {[manifest |-> m, assets |-> [p \in AssetPaths |-> NotFound]] :
                m \in MatcherManifests}
    /\ NoSelector

\* the choice getTypefaceAsset makes among a family's fonts, alone: `call`
\* holds the chosen font_iter and its asset path
selectFont(font_description, family_name) ==
    /\ installed
    /\ family_name \in DOMAIN font_family_map_
    /\ font_family_map_[family_name] # <<>>
    /\ LET fonts     == font_family_map_[family_name]
           font_iter == SelectFont(fonts, font_description)
       IN  call' = [NoCall("selectFont") EXCEPT
                       !.family_name = family_name,
                       !.font_description = font_description,
                       !.font_iter = font_iter,
                       !.asset_path = IF font_iter \in DOMAIN fonts
                                      THEN fonts[font_iter].asset_path ELSE ""]
    /\ UNCHANGED <<zip_asset_bundle_, installed, font_family_map_, typeface_cache_,
                   font_platform_data_cache_, next_id, calls, fetch_count,
                   construct_count, returned, failed>>

SelectFamilyFont ==
    \E font_description \in MatcherDescriptions : selectFont(font_description, "Family")

NextMatcher == Install \/ SelectFamilyFont

SpecMatcher == InitMatcher /\ [][NextMatcher]_vars

(***************************************************************************)
(* The loader specification: the bundle's manifest is packed entry by      *)
(* entry, up to MaxFamilyEntries family entries holding up to              *)
(* MaxFontEntries font entries between them, well-formed or not, and       *)
(* install builds the registry from whatever was packed.                   *)
(***************************************************************************)
\* font entries: one that gives the asset alone, one whose optional fields
\* are of the wrong type, an italic one whose weight is off the scale, and
\* three the loader cannot use
LoaderFontEntries ==
    {FontEntry("a.ttf"),
     DictionaryValue([asset |-> StringValue("c.ttf"), weight |-> StringValue("bold"),
                      style |-> IntegerValue(1)]),
     FullFontEntry("d.ttf", 1000, "italic"),
     StringValue("e.ttf"),
     DictionaryValue([weight |-> IntegerValue(700)]),
     DictionaryValue([asset |-> IntegerValue(12)])}

LoaderFamilies == {"Roboto", "Mono"}

\* family entries as they are first packed: a family with no font yet, or
\* an entry the loader cannot use (not an object, a family that is no
\* string, fonts that are no list)
LoaderFamilyEntries ==
    {FamilyEntry(name, <<>>) : name \in LoaderFamilies}
        \cup {StringValue("Roboto"),
              DictionaryValue([family |-> IntegerValue(7), fonts |-> ListValue(<<>>)]),
              DictionaryValue([family |-> StringValue("Mono"),
                               fonts |-> StringValue("a.ttf")])}

\* manifests before any entry is packed: an empty list, no manifest asset,
\* bytes that are no JSON, and a document whose top level is no list
LoaderManifests ==
    {Manifest(ListValue(<<>>)), NoManifest, Manifest(NoValue),
     Manifest(FamilyEntry("Roboto", <<>>))}

InitLoader ==
    /\ zip_asset_bundle_ \in
           {[manifest |-> m, assets |-> [p \in AssetPaths |-> NotFound]] :
                m \in LoaderManifests}
    /\ NoSelector

\* the family list being packed
PackedFamilies == zip_asset_bundle_.manifest.json.list

\* the font entries packed so far, over all family entries
RECURSIVE PackedFonts(_)
PackedFonts(i) ==
    IF i > Len(PackedFamilies) THEN 0
    ELSE PackedFonts(i + 1)
           + (IF GetAsDictionary(PackedFamilies[i]) /\ GetList(PackedFamilies[i], "fonts")
              THEN Len(PackedFamilies[i].dict["fonts"].list) ELSE 0)

Packing ==
    /\ ~installed
    /\ zip_asset_bundle_.manifest.found
    /\ GetAsList(zip_asset_bundle_.manifest.json)

PackFamilyEntry(entry) ==
    /\ Packing
    /\ Len(PackedFamilies) < MaxFamilyEntries
    /\ zip_asset_bundle_' =
           [zip_asset_bundle_ EXCEPT !.manifest.json.list = Append(@, entry)]
    /\ UNCHANGED <<installed, font_family_map_, typeface_cache_,
                   font_platform_data_cache_, next_id, calls, fetch_count,
                   construct_count, returned, failed, call>>

\* a font entry is added to the last family entry's fonts
PackFontEntry(entry) ==
    /\ Packing
    /\ PackedFamilies # <<>>
    /\ GetAsDictionary(PackedFamilies[Len(PackedFamilies)])
    /\ GetList(PackedFamilies[Len(PackedFamilies)], "fonts")
    /\ PackedFonts(1) < MaxFontEntries
    /\ zip_asset_bundle_' =
           [zip_asset_bundle_ EXCEPT
               !.manifest.json.list[Len(PackedFamilies)].dict["fonts"].list =
                   Append(@, entry)]
    /\ UNCHANGED <<installed, font_family_map_, typeface_cache_,
                   font_platform_data_cache_, next_id, calls, fetch_count,
                   construct_count, returned, failed, call>>

PackManifest ==
    \/ \E entry \in LoaderFamilyEntries : PackFamilyEntry(entry)
    \/ \E entry \in LoaderFontEntries : PackFontEntry(entry)

NextLoader == PackManifest \/ Install

SpecLoader == InitLoader /\ [][NextLoader]_vars

(***************************************************************************)
(* Properties of the selector's lifecycle, under Spec.                      *)
(***************************************************************************)
\* the step is a getFontData call
IsGetFontData == calls' = calls + 1

\* the asset path the registry's family has for a request: the path of
\* the font chosen for it, "" when the family is unknown or has no font
RequestPath(family_name, font_description) ==
    IF family_name \in DOMAIN font_family_map_
          /\ font_family_map_[family_name] # <<>>
    THEN LET fonts == font_family_map_[family_name]
         IN  fonts[SelectFont(fonts, font_description)].asset_path
    ELSE ""

\* the FontCacheKey of the request `call` holds
CallKey(c) == cacheKey(c.font_description, c.family_name)

\* C1: over the getFontData calls made on one selector, GetAsBuffer is
\* called at most once for each asset path, whether that fetch found the
\* asset or not and however many requests resolve to the path.
C1_FetchAtMostOncePerPath ==
    \A path \in DOMAIN fetch_count : fetch_count[path] <= 1

\* a second request with another key resolved to a path fetched before,
\* and did not fetch it again
C1_Witness ==
    /\ call.op = "getFontData"
    /\ calls = 2
    /\ call.resolved
    /\ ~call.fetched
    /\ call.asset_path \in failed
    /\ Count(fetch_count, call.asset_path) = 1

\* C2: once the load of an asset path has failed, every later getFontData
\* call whose request resolves to that path returns null and fetches
\* nothing, whatever the bundle holds for the path by then.
C2_FailureIsPermanent ==
    [][(IsGetFontData
          /\ RequestPath(call'.family_name, call'.font_description) \in failed)
       => (/\ call'.result = NullFontData
           /\ ~call'.fetched
           /\ fetch_count' = fetch_count)]_vars

\* a request was refused for a path that failed before although the
\* bundle now holds a font for it
C2_Witness ==
    /\ call.op = "getFontData"
    /\ call.resolved
    /\ ~call.fetched
    /\ call.asset_path \in failed
    /\ call.result = NullFontData
    /\ GetAsBuffer(call.asset_path) = Asset("plain")

\* C3: a getFontData call whose key equals the key of an earlier call that
\* returned font data returns that same object, and calls neither
\* getTypefaceAsset nor GetAsBuffer nor createFromStream.
C3_EqualKeySameObject ==
    [][(IsGetFontData /\ CallKey(call') \in DOMAIN returned)
       => (/\ call'.result = returned[CallKey(call')]
           /\ ~call'.resolved
           /\ ~call'.fetched
           /\ ~call'.constructed
           /\ fetch_count' = fetch_count
           /\ construct_count' = construct_count
           /\ next_id' = next_id)]_vars

\* the second call of a selector repeated the first call's key and got
\* the first call's object
C3_Witness ==
    /\ call.op = "getFontData"
    /\ calls = 2
    /\ ~call.resolved
    /\ call.result # NullFontData
    /\ call.result = returned[CallKey(call)]
    /\ Cardinality(DOMAIN returned) = 1

\* C6: a getFontData call for a family the registry does not have, or has
\* an empty font list for, returns null, leaves both caches as they were
\* and fetches nothing.
C6_UnknownFamilyChangesNothing ==
    [][(IsGetFontData
          /\ (call'.family_name \notin DOMAIN font_family_map_
                \/ font_family_map_[call'.family_name] = <<>>))
       => (/\ call'.result = NullFontData
           /\ typeface_cache_' = typeface_cache_
           /\ font_platform_data_cache_' = font_platform_data_cache_
           /\ ~call'.fetched
           /\ fetch_count' = fetch_count)]_vars

\* a family with an empty font list was asked for on a selector whose
\* caches hold an entry each
C6_Witness ==
    /\ call.op = "getFontData"
    /\ call.family_name \in DOMAIN font_family_map_
    /\ font_family_map_[call.family_name] = <<>>
    /\ call.result = NullFontData
    /\ DOMAIN typeface_cache_ # {}
    /\ DOMAIN font_platform_data_cache_ # {}

(***************************************************************************)
(* Properties of the matcher, under SpecMatcher.                           *)
(***************************************************************************)
\* the fonts of the family `call` asked for
CallFonts == font_family_map_[call.family_name]

\* the two keys of the ordering: 0 for a font of the requested style and 1
\* for another, then the distance to the requested weight
StylePenalty(font, description) ==
    IF font.style = description.style THEN 0 ELSE 1

WeightDistance(font, description) ==
    LET requested == 100 * (description.weight + 1)
    IN  IF font.weight >= requested THEN font.weight - requested
        ELSE requested - font.weight

StrictlyBetter(font1, font2, description) ==
    \/ StylePenalty(font1, description) < StylePenalty(font2, description)
    \/ /\ StylePenalty(font1, description) = StylePenalty(font2, description)
       /\ WeightDistance(font1, description) < WeightDistance(font2, description)

\* C4: for a family of two or more fonts, the font chosen is one of the
\* family's, no font of the family is strictly better under (style
\* penalty, weight distance), and every font before it is strictly worse:
\* the first minimum in registry order.
C4_FirstLexicographicMinimum ==
    (call.op = "selectFont" /\ Len(CallFonts) >= 2)
    => /\ call.font_iter \in 1 .. Len(CallFonts)
       /\ call.asset_path = CallFonts[call.font_iter].asset_path
       /\ \A j \in 1 .. Len(CallFonts) :
              ~StrictlyBetter(CallFonts[j], CallFonts[call.font_iter],
                              call.font_description)
       /\ \A j \in 1 .. call.font_iter - 1 :
              StrictlyBetter(CallFonts[call.font_iter], CallFonts[j],
                             call.font_description)

\* [(400, Normal), (700, Normal), (400, Italic)] asked for (700, Italic):
\* the italic font is chosen
C4_Witness ==
    /\ call.op = "selectFont"
    /\ Len(CallFonts) = 3
    /\ CallFonts[1].weight = 400 /\ CallFonts[1].style = FontStyleNormal
    /\ CallFonts[2].weight = 700 /\ CallFonts[2].style = FontStyleNormal
    /\ CallFonts[3].weight = 400 /\ CallFonts[3].style = FontStyleItalic
    /\ call.font_description.weight = FontWeightOf(700)
    /\ call.font_description.style = FontStyleItalic
    /\ call.font_iter = 3

\* C5: for a family of exactly one font, that font is chosen for every
\* requested weight and style.
C5_SoleFontAlwaysChosen ==
    (call.op = "selectFont" /\ Len(CallFonts) = 1)
    => /\ call.font_iter = 1
       /\ call.asset_path = CallFonts[1].asset_path

\* a sole normal font of weight 400 was chosen for an italic 900 request
C5_Witness ==
    /\ call.op = "selectFont"
    /\ Len(CallFonts) = 1
    /\ CallFonts[1].style = FontStyleNormal
    /\ CallFonts[1].weight = 400
    /\ call.font_description.style = FontStyleItalic
    /\ call.font_description.weight = FontWeightOf(900)
    /\ call.font_iter = 1

(***************************************************************************)
(* Properties of the synthetic flags, under SpecStyle.                     *)
(***************************************************************************)
\* the typeface a font data object holds: the one of that id in the
\* typeface cache
HeldTypefaces(font_data) ==
    {typeface_cache_[p].typeface : p \in {q \in DOMAIN typeface_cache_ :
        typeface_cache_[q].typeface.id = font_data.typeface}}

\* C7: every font data getFontData returns, built or found in the cache,
\* has synthetic bold = (requested weight >= 600 and the typeface is not
\* bold) or the request's synthetic bold flag, and synthetic italic =
\* (requested style is italic and the typeface is not italic) or the
\* request's synthetic italic flag, for the request it is returned to.
C7_SyntheticFlags ==
    (call.op = "getFontData" /\ call.result # NullFontData)
    => /\ Cardinality(HeldTypefaces(call.result)) = 1
       /\ \A typeface \in HeldTypefaces(call.result) :
            LET d == call.font_description
            IN  /\ call.result.synthetic_bold =
                       ((100 * (d.weight + 1) >= 600 /\ ~typeface.bold)
                            \/ d.synthetic_bold)
                /\ call.result.synthetic_italic =
                       ((d.style = FontStyleItalic /\ ~typeface.italic)
                            \/ d.synthetic_italic)

\* a cache hit returned font data with both flags set by the rule alone:
\* weight 600 and italic were asked of a typeface that is neither
C7_Witness ==
    /\ call.op = "getFontData"
    /\ calls = 2
    /\ ~call.resolved
    /\ call.font_description.weight = FontWeight600
    /\ call.font_description.style = FontStyleItalic
    /\ ~call.font_description.synthetic_bold
    /\ ~call.font_description.synthetic_italic
    /\ call.result.synthetic_bold
    /\ call.result.synthetic_italic

\* the registry of the end-to-end example
RobotoRegistry ==
    /\ "Roboto" \in DOMAIN font_family_map_
    /\ font_family_map_["Roboto"] =
           <<[asset_path |-> RegularPath, weight |-> 400, style |-> FontStyleNormal],
             [asset_path |-> BoldPath, weight |-> 700, style |-> FontStyleNormal]>>

\* a request for Roboto with no synthetic flag was answered while the
\* typeface of fonts/Roboto-Bold.ttf reports bold and not italic
RobotoCall(weight, style) ==
    /\ installed
    /\ RobotoRegistry
    /\ BoldPath \in DOMAIN typeface_cache_
    /\ typeface_cache_[BoldPath] # NullAsset
    /\ typeface_cache_[BoldPath].typeface.bold
    /\ ~typeface_cache_[BoldPath].typeface.italic
    /\ call.op = "getFontData"
    /\ call.family_name = "Roboto"
    /\ call.font_description = Description(FontWeightOf(weight), style, FALSE, FALSE)

ResolvedToBoldAsset ==
    /\ call.result # NullFontData
    /\ call.result.typeface = typeface_cache_[BoldPath].typeface.id

\* C8, as amended: (Roboto, 700, Normal) resolves to fonts/Roboto-Bold.ttf
\* with synthetic bold false; (Roboto, 900, Italic) resolves to the same
\* 700 font with synthetic bold false (the typeface is bold) and synthetic
\* italic true.
C8_RobotoEndToEnd ==
    /\ RobotoCall(700, FontStyleNormal)
           => (ResolvedToBoldAsset /\ ~call.result.synthetic_bold)
    /\ RobotoCall(900, FontStyleItalic)
           => (/\ ResolvedToBoldAsset
               /\ ~call.result.synthetic_bold
               /\ call.result.synthetic_italic)

\* (Roboto, 900, Italic) was answered from the bold typeface
C8_Witness ==
    /\ RobotoCall(900, FontStyleItalic)
    /\ ResolvedToBoldAsset
    /\ ~call.result.synthetic_bold
    /\ call.result.synthetic_italic

\* C8 as stated: (Roboto, 900, Italic) gets synthetic bold true
C8_AsClaimed ==
    /\ RobotoCall(700, FontStyleNormal)
           => (ResolvedToBoldAsset /\ ~call.result.synthetic_bold)
    /\ RobotoCall(900, FontStyleItalic)
           => (/\ ResolvedToBoldAsset
               /\ call.result.synthetic_bold
               /\ call.result.synthetic_italic)

(***************************************************************************)
(* Properties of the manifest loader, under SpecLoader.                    *)
(***************************************************************************)
\* the family entries of the bundle's manifest, when it is a list
ManifestFamilies ==
    IF zip_asset_bundle_.manifest.found
          /\ zip_asset_bundle_.manifest.json.type = "list"
    THEN zip_asset_bundle_.manifest.json.list
    ELSE <<>>

\* a family entry with a family string and a fonts list
IsFamilyEntry(e) ==
    /\ e.type = "dictionary"
    /\ "family" \in DOMAIN e.dict /\ e.dict["family"].type = "string"
    /\ "fonts" \in DOMAIN e.dict /\ e.dict["fonts"].type = "list"

\* a font entry that is an object with an asset string
IsFontEntry(e) ==
    /\ e.type = "dictionary"
    /\ "asset" \in DOMAIN e.dict /\ e.dict["asset"].type = "string"

EntryFamily(e) == e.dict["family"].str

\* the asset paths of a family entry's valid font entries, in manifest order
EntryAssets(e) ==
    LET valid == SelectSeq(e.dict["fonts"].list, IsFontEntry)
    IN  [i \in 1 .. Len(valid) |-> valid[i].dict["asset"].str]

\* the asset paths of a registry entry, in registry order
RegistryAssets(family_name) ==
    [i \in 1 .. Len(font_family_map_[family_name]) |->
        font_family_map_[family_name][i].asset_path]

\* the positions of the manifest's usable family entries
FamilyEntryIndexes ==
    {i \in 1 .. Len(ManifestFamilies) : IsFamilyEntry(ManifestFamilies[i])}

\* the positions of the usable family entries that name `family_name`
IndexesOf(family_name) ==
    {i \in FamilyEntryIndexes : EntryFamily(ManifestFamilies[i]) = family_name}

\* C9, as stated: a family name listed in two family entries has, after
\* loading, the first entry's valid fonts followed by the second's.
C9_AsClaimed ==
    installed =>
        \A i \in FamilyEntryIndexes : \A j \in FamilyEntryIndexes :
            (i < j /\ IndexesOf(EntryFamily(ManifestFamilies[i])) = {i, j})
            => /\ EntryFamily(ManifestFamilies[i]) \in DOMAIN font_family_map_
               /\ RegistryAssets(EntryFamily(ManifestFamilies[i])) =
                      EntryAssets(ManifestFamilies[i]) \o EntryAssets(ManifestFamilies[j])

FailClosedManifests ==
    {NoManifest, Manifest(NoValue), Manifest(RobotoFamily), RobotoManifest}

InitFailClosed ==
    /\ zip_asset_bundle_ \in
           {[manifest |-> m, assets |-> a] :
                m \in FailClosedManifests, a \in [AssetPaths -> LifecycleContents]}
    /\ NoSelector

ReplaceBundleAsset ==
    \E path \in AssetPaths, content \in LifecycleContents : ReplaceAsset(path, content)

NextFailClosed == Install \/ GetFontData \/ ReplaceBundleAsset

SpecFailClosed == InitFailClosed /\ [][NextFailClosed]_vars

\* the bundle has no manifest asset, or one that is no JSON, or one whose
\* top level is no list
BadManifest ==
    \/ ~zip_asset_bundle_.manifest.found
    \/ zip_asset_bundle_.manifest.json.type = "none"
    \/ zip_asset_bundle_.manifest.json.type # "list"

\* C11: a selector installed from a bundle whose manifest is absent,
\* unparsable or no list has an empty registry, every getFontData call on
\* it returns null, and both of its caches stay empty (nothing is fetched).
C11_BadManifestFailsClosed ==
    (installed /\ BadManifest)
    => /\ font_family_map_ = EmptyMap
       /\ call.result = NullFontData
       /\ typeface_cache_ = EmptyTypefaceCache
       /\ font_platform_data_cache_ = EmptyFontDataCache
       /\ fetch_count = EmptyCount

\* the second call on a selector whose manifest is a JSON object asked for
\* the family that object names, while the bundle holds a font for it
C11_Witness ==
    /\ installed
    /\ zip_asset_bundle_.manifest = Manifest(RobotoFamily)
    /\ call.op = "getFontData"
    /\ calls = 2
    /\ call.family_name = "Roboto"
    /\ GetAsBuffer(RegularPath) = Asset("plain")
    /\ call.result = NullFontData

(***************************************************************************)
(* Properties of the two caches over a selector's lifetime, under Spec.    *)
(***************************************************************************)
\* the step is taken on the installed selector: a getFontData call, or a
\* change of the bundle under it (install replaces the selector)
SameSelector == IsGetFontData \/ zip_asset_bundle_' # zip_asset_bundle_

\* C12: while a selector lives, every typeface cache entry (a loaded asset
\* or the null entry of a failed load) and every font data cache entry
\* stays what it is, and a getFontData call adds at most one entry to each
\* cache.
C12_CachesOnlyGrow ==
    [][SameSelector
       => (/\ \A p \in DOMAIN typeface_cache_ :
                  p \in DOMAIN typeface_cache_' /\ typeface_cache_'[p] = typeface_cache_[p]
           /\ \A k \in DOMAIN font_platform_data_cache_ :
                  /\ k \in DOMAIN font_platform_data_cache_'
                  /\ font_platform_data_cache_'[k] = font_platform_data_cache_[k]
           /\ Cardinality(DOMAIN typeface_cache_' \ DOMAIN typeface_cache_) <= 1
           /\ Cardinality(DOMAIN font_platform_data_cache_'
                              \ DOMAIN font_platform_data_cache_) <= 1)]_vars

\* after two calls the typeface cache holds a loaded asset and the null
\* entry of a path the bundle has a font for by now, and the font data
\* cache holds the one object built
C12_Witness ==
    /\ calls = 2
    /\ Cardinality(DOMAIN typeface_cache_) = 2
    /\ Cardinality(DOMAIN font_platform_data_cache_) = 1
    /\ \E p \in DOMAIN typeface_cache_ :
           typeface_cache_[p] = NullAsset /\ GetAsBuffer(p) = Asset("plain")
    /\ \E p \in DOMAIN typeface_cache_ : typeface_cache_[p] # NullAsset

\* the asset of a path cannot be had: its load failed before on this
\* selector, or it was never tried and the bundle has no such asset or has
\* bytes that are no font
Unavailable(path) ==
    IF path \in DOMAIN typeface_cache_
    THEN typeface_cache_[path] = NullAsset
    ELSE GetAsBuffer(path) \in {NotFound, Asset("corrupt")}

\* C13: a getFontData call that misses the font data cache and whose
\* chosen font's asset cannot be had returns null and leaves the font data
\* cache as it was, while the typeface cache holds the null entry for the
\* path; the font data cache never holds a null entry.
C13_FailureNotCachedAsFontData ==
    [][/\ (/\ IsGetFontData
            /\ CallKey(call') \notin DOMAIN font_platform_data_cache_
            /\ RequestPath(call'.family_name, call'.font_description) # ""
            /\ Unavailable(RequestPath(call'.family_name, call'.font_description)))
           => (/\ call'.result = NullFontData
               /\ font_platform_data_cache_' = font_platform_data_cache_
               /\ typeface_cache_'[RequestPath(call'.family_name,
                                                call'.font_description)] = NullAsset)
       /\ \A k \in DOMAIN font_platform_data_cache_' :
              /\ font_platform_data_cache_'[k] # NullFontData
              /\ font_platform_data_cache_'[k].typeface # NullTypeface.id]_vars

\* a call whose font's bytes are no font returned null on a selector whose
\* font data cache holds the object of an earlier call, and holds no more
C13_Witness ==
    /\ call.op = "getFontData"
    /\ call.constructed
    /\ call.result = NullFontData
    /\ typeface_cache_[call.asset_path] = NullAsset
    /\ Cardinality(DOMAIN font_platform_data_cache_) = 1
    /\ CallKey(call) \notin DOMAIN font_platform_data_cache_

\* C14: createFromStream is called for a path only in a call that fetched
\* the path and found it, and at most once for a path on a selector; when
\* it gives no typeface the path gets the null entry and the call returns
\* null, otherwise the path's entry holds the typeface together with the
\* fetched bytes and the call returns font data of that typeface.
C14_ConstructAfterFetchOnce ==
    [][IsGetFontData
       => LET path   == call'.asset_path
              buffer == GetAsBuffer(path)
          IN  /\ call'.constructed
                     => (/\ call'.fetched
                         /\ buffer.found
                         /\ Count(fetch_count', path) = Count(fetch_count, path) + 1
                         /\ Count(construct_count, path) = 0)
              /\ (call'.fetched /\ ~buffer.found) => ~call'.constructed
              /\ \A p \in DOMAIN construct_count' : construct_count'[p] <= 1
              /\ (call'.constructed /\ buffer.data = "corrupt")
                     => (/\ typeface_cache_'[path] = NullAsset
                         /\ call'.result = NullFontData)
              /\ (call'.constructed /\ buffer.data # "corrupt")
                     => (/\ typeface_cache_'[path].typeface # NullTypeface
                         /\ typeface_cache_'[path].data = buffer.data
                         /\ call'.result # NullFontData
                         /\ call'.result.typeface = typeface_cache_'[path].typeface.id)]_vars

\* two calls each fetched and constructed their font once: one left the
\* null entry, the other a typeface with its bytes
C14_Witness ==
    /\ calls = 2
    /\ call.op = "getFontData"
    /\ call.constructed
    /\ \A p \in AssetPaths : Count(construct_count, p) = 1 /\ Count(fetch_count, p) = 1
    /\ \E p \in AssetPaths : typeface_cache_[p] = NullAsset
    /\ \E p \in AssetPaths :
           typeface_cache_[p] # NullAsset /\ typeface_cache_[p].data = "plain"

(***************************************************************************)
(* Properties of the loaded fonts, under SpecLoader.                       *)
(***************************************************************************)
\* the fonts of the registry, over all families
RegistryFonts ==
    UNION {{font_family_map_[f][i] : i \in 1 .. Len(font_family_map_[f])} :
               f \in DOMAIN font_family_map_}

\* C15, as stated: every font of the registry has a weight on the scale
\* 100, 200, ..., 900, whatever integer weights the manifest gives.
C15_AsClaimed ==
    installed =>
        \A font \in RegistryFonts :
            \E w \in 1 .. Len(kFontWeightValue) : font.weight = kFontWeightValue[w]

\* a font entry of the manifest's shape: an object whose asset is a
\* string, whose weight, if any, is an integer and whose style, if any, is
\* a string
MatchesFontEntryShape(e) ==
    /\ e.type = "dictionary"
    /\ "asset" \in DOMAIN e.dict /\ e.dict["asset"].type = "string"
    /\ "weight" \in DOMAIN e.dict => e.dict["weight"].type = "integer"
    /\ "style" \in DOMAIN e.dict => e.dict["style"].type = "string"

\* the asset paths of a family entry's font entries of that shape
ShapedAssets(e) ==
    LET shaped == SelectSeq(e.dict["fonts"].list, MatchesFontEntryShape)
    IN  [i \in 1 .. Len(shaped) |-> shaped[i].dict["asset"].str]

\* C16, as stated: a font entry that is no object, has no asset, or has a
\* field of the wrong type (asset no string, weight no integer, style no
\* string) adds no font to the registry: a family's registry entry holds
\* the fonts of the well-shaped entries of the family's last family entry
\* and no other.
C16_AsClaimed ==
    installed =>
        \A i \in FamilyEntryIndexes :
            LET e == ManifestFamilies[i]
            IN  (\A j \in IndexesOf(EntryFamily(e)) : j <= i)
                => RegistryAssets(EntryFamily(e)) = ShapedAssets(e)

(***************************************************************************)
(* Properties of what the two caches hold together, under Spec.            *)
(***************************************************************************)
\* the asset path of the font chosen for the request a FontCacheKey is of
KeyPath(key) ==
    RequestPath(key[1], Description(key[2], key[3], key[4], key[5]))

\* C17: every font data cache entry holds the typeface of the typeface
\* cache's entry for the asset path of the font chosen for the entry's
\* request, that entry is a loaded asset and not the null entry, and the
\* entries of requests that resolve to one path hold one typeface.
C17_FontDataSharesCachedTypeface ==
    /\ \A k \in DOMAIN font_platform_data_cache_ :
           /\ KeyPath(k) \in DOMAIN typeface_cache_
           /\ typeface_cache_[KeyPath(k)] # NullAsset
           /\ typeface_cache_[KeyPath(k)].typeface # NullTypeface
           /\ font_platform_data_cache_[k].typeface =
                  typeface_cache_[KeyPath(k)].typeface.id
    /\ \A k1 \in DOMAIN font_platform_data_cache_ :
           \A k2 \in DOMAIN font_platform_data_cache_ :
               KeyPath(k1) = KeyPath(k2)
               => font_platform_data_cache_[k1].typeface =
                      font_platform_data_cache_[k2].typeface

\* two requests of different keys resolved to one asset: two font data
\* objects hold the one typeface the typeface cache has
C17_Witness ==
    /\ Cardinality(DOMAIN font_platform_data_cache_) = 2
    /\ Cardinality(DOMAIN typeface_cache_) = 1
    /\ \A k \in DOMAIN font_platform_data_cache_ :
           \A p \in DOMAIN typeface_cache_ :
               font_platform_data_cache_[k].typeface = typeface_cache_[p].typeface.id
    /\ \E k1 \in DOMAIN font_platform_data_cache_ :
           \E k2 \in DOMAIN font_platform_data_cache_ :
               font_platform_data_cache_[k1].id # font_platform_data_cache_[k2].id

\* the bundle has no asset of the path
NotInBundle(path) ==
    \/ path \notin DOMAIN zip_asset_bundle_.assets
    \/ ~zip_asset_bundle_.assets[path].found

\* C18: a getFontData call that misses the font data cache tries the one
\* font chosen for the request: it fetches no path but that font's, and
\* that one at most once, and adds no typeface cache entry for another
\* path; when that font's asset is not in the bundle or is remembered as
\* failed the call returns null, whatever the family's other fonts have.
C18_OneVariantNoFallback ==
    [][(IsGetFontData /\ CallKey(call') \notin DOMAIN font_platform_data_cache_)
       => LET path == RequestPath(call'.family_name, call'.font_description)
          IN  /\ call'.resolved
              /\ call'.asset_path = path
              /\ \A p \in DOMAIN fetch_count' \cup DOMAIN fetch_count :
                     Count(fetch_count', p) =
                         Count(fetch_count, p)
                             + (IF p = path /\ call'.fetched THEN 1 ELSE 0)
              /\ DOMAIN typeface_cache_' \ DOMAIN typeface_cache_ \subseteq {path}
              /\ (/\ path # ""
                  /\ IF path \in DOMAIN typeface_cache_
                     THEN typeface_cache_[path] = NullAsset
                     ELSE NotInBundle(path))
                     => call'.result = NullFontData]_vars

\* Roboto's regular font was asked for and is not in the bundle: the call
\* returned null although Roboto's bold font is loaded in the typeface cache
C18_Witness ==
    /\ call.op = "getFontData"
    /\ call.family_name = "Roboto"
    /\ call.asset_path = RegularPath
    /\ call.fetched
    /\ NotInBundle(RegularPath)
    /\ call.result = NullFontData
    /\ BoldPath \in DOMAIN typeface_cache_
    /\ typeface_cache_[BoldPath] # NullAsset
    /\ GetAsBuffer(BoldPath) = Asset("plain")

(***************************************************************************)
(* Properties of install, under Spec.                                      *)
(***************************************************************************)
\* the step is an install call
IsInstall ==
    /\ call'.op = "install"
    /\ ~IsGetFontData
    /\ zip_asset_bundle_' = zip_asset_bundle_

\* the last usable family entry of a family name in the bundle's manifest
LastEntryOf(family_name) ==
    ManifestFamilies[CHOOSE i \in IndexesOf(family_name) :
                         \A j \in IndexesOf(family_name) : j <= i]

\* C19: an install makes a selector the font selector whose registry has
\* the families of the bundle's manifest as it is at that install, and no
\* other, each with the fonts that manifest lists for it, and whose two
\* caches are empty, whatever the selector before it had; no getFontData
\* call changes the registry.
C19_InstallStartsAfresh ==
    [][/\ IsInstall
          => (/\ installed'
              /\ DOMAIN font_family_map_' =
                     {EntryFamily(ManifestFamilies[i]) : i \in FamilyEntryIndexes}
              /\ \A family_name \in DOMAIN font_family_map_' :
                     [i \in 1 .. Len(font_family_map_'[family_name]) |->
                         font_family_map_'[family_name][i].asset_path]
                         = EntryAssets(LastEntryOf(family_name))
              /\ typeface_cache_' = EmptyTypefaceCache
              /\ font_platform_data_cache_' = EmptyFontDataCache)
       /\ IsGetFontData => font_family_map_' = font_family_map_]_vars

\* an install replaced a selector that had three families and an entry in
\* each cache: the new selector has the one family of the manifest the
\* bundle holds by now, with its one font, and empty caches
C19_Witness ==
    /\ installed
    /\ call.op = "install"
    /\ call.replaced.families = {"Roboto", "Solo", "Empty"}
    /\ call.replaced.typefaces >= 1
    /\ call.replaced.font_data >= 1
    /\ zip_asset_bundle_.manifest = OtherManifest
    /\ DOMAIN font_family_map_ = {"Roboto"}
    /\ Len(font_family_map_["Roboto"]) = 1
    /\ typeface_cache_ = EmptyTypefaceCache
    /\ font_platform_data_cache_ = EmptyFontDataCache

=============================================================================
